---------------------------- MODULE Spec2Model ----------------------------
(***************************************************************************)
(* Model of the Pet-Calendar events handler (netlify/functions/events.js): *)
(* the HTTP dispatch, the POST batch transaction, the PUT ?seriesId         *)
(* delete-and-regenerate transaction with its day-by-day expansion loop,   *)
(* the single-row update and the two deletes, against a relational store   *)
(* with transactions; and of the autocomplete handler                      *)
(* (netlify/functions/getPetNames.js) that reads the same table.           *)
(*                                                                         *)
(* Dates.  A JavaScript Date is an instant or the invalid date; it is      *)
(* modelled as [valid, t] with t in minutes since 2024-01-01T00:00 local   *)
(* time.  The handler runs with the process time zone at UTC (no daylight  *)
(* saving), so local fields and the UTC fields toISOString prints agree.   *)
(* Date strings are modelled after the split on "-" and ":" as their       *)
(* numeric fields, with a kind for strings that are missing or do not      *)
(* hold numbers.                                                           *)
(***************************************************************************)
EXTENDS Integers, Sequences, FiniteSets, Bags, TLC

VARIABLES events, h, budget, uuids, prev, names

vars == <<events, h, budget, uuids, prev, names>>

(***************************************************************************)
(* Bounds of the model.                                                    *)
(***************************************************************************)
\* days in the window of dates the series specs of SpecExpand draw from
MaxSpan == 5
\* events in one POST body
MaxBatch == 2
\* requests one handler process serves in a run
MaxRequests == 2

(***************************************************************************)
(* The calendar behind new Date(y, m, d, h, mi), getDay, getFullYear,      *)
(* getMonth, getDate and setDate.                                          *)
(***************************************************************************)
EpochYear == 2024
\* 2024-01-01 is a Monday
EpochWeekday == 1
MinutesPerDay == 24 * 60

IsLeap(y) == (y % 4 = 0 /\ y % 100 # 0) \/ y % 400 = 0

DaysInYear(y) == IF IsLeap(y) THEN 366 ELSE 365

\* mi is a month index 0..11, as in Date.getMonth()
DaysInMonth(y, mi) ==
    CASE mi = 1 -> IF IsLeap(y) THEN 29 ELSE 28
      [] mi \in {3, 5, 8, 10} -> 30
      [] OTHER -> 31

RECURSIVE DaysBeforeYear(_)
DaysBeforeYear(y) ==
    IF y = EpochYear THEN 0
    ELSE IF y > EpochYear THEN DaysBeforeYear(y - 1) + DaysInYear(y - 1)
    ELSE DaysBeforeYear(y + 1) - DaysInYear(y)

RECURSIVE DaysBeforeMonth(_, _)
DaysBeforeMonth(y, mi) ==
    IF mi = 0 THEN 0 ELSE DaysBeforeMonth(y, mi - 1) + DaysInMonth(y, mi - 1)

InvalidDate == [valid |-> FALSE, t |-> 0]

\* new Date(year, monthIndex, day, hours, minutes): fields out of range
\* carry over (month 12 is January of the next year, day 30 of February is
\* a day of March, hour 24 is the next day).
NewDate(year, monthIndex, day, hours, minutes) ==
    LET y  == year + (monthIndex \div 12)
        mi == monthIndex % 12
        dn == DaysBeforeYear(y) + DaysBeforeMonth(y, mi) + (day - 1)
    IN  [valid |-> TRUE, t |-> dn * MinutesPerDay + hours * 60 + minutes]

\* new Date(ms): an instant from a time value; NaN gives the invalid date
DateOfTime(valid, t) == IF valid THEN [valid |-> TRUE, t |-> t] ELSE InvalidDate

DayNumber(date) == date.t \div MinutesPerDay

RECURSIVE YearOfDay(_, _)
YearOfDay(dn, y) ==
    IF dn < DaysBeforeYear(y) THEN YearOfDay(dn, y - 1)
    ELSE IF dn >= DaysBeforeYear(y + 1) THEN YearOfDay(dn, y + 1)
    ELSE y

RECURSIVE MonthOfDay(_, _, _)
MonthOfDay(rest, y, mi) ==
    IF rest < DaysInMonth(y, mi) THEN mi ELSE MonthOfDay(rest - DaysInMonth(y, mi), y, mi + 1)

GetFullYear(date) == YearOfDay(DayNumber(date), EpochYear)

GetMonth(date) ==
    LET y == GetFullYear(date)
    IN  MonthOfDay(DayNumber(date) - DaysBeforeYear(y), y, 0)

GetDate(date) ==
    LET y == GetFullYear(date)
        mi == GetMonth(date)
    IN  DayNumber(date) - DaysBeforeYear(y) - DaysBeforeMonth(y, mi) + 1

GetHours(date) == (date.t % MinutesPerDay) \div 60

GetMinutes(date) == date.t % 60

\* weekdays numbered from Monday = 0
GetDayMondayFirst(date) == (DayNumber(date) + EpochWeekday + 6) % 7

\* Date.getDay(): 0 = Sunday .. 6 = Saturday
GetDay(date) == (DayNumber(date) + EpochWeekday) % 7

\* date.setDate(n): the same month and time of day, day of month n
SetDate(date, n) ==
    NewDate(GetFullYear(date), GetMonth(date), n, GetHours(date), GetMinutes(date))

\* a <= b on two Dates: a comparison of the time values, false with NaN
DateLE(a, b) == a.valid /\ b.valid /\ a.t <= b.t

(***************************************************************************)
(* Values of the request body and of the table's columns.  A field that   *)
(* is absent (undefined) and a column that is NULL are the empty sequence, *)
(* a present value v is <<v>>.                                             *)
(***************************************************************************)
Missing == <<>>
NULL == <<>>
Some(v) == <<v>>

\* "YYYY-MM-DD", optionally followed by "T..." (iso); kind "nan" is a string
\* whose pieces are not all numbers
DateStr(y, m, d) == [kind |-> "date", y |-> y, m |-> m, d |-> d, iso |-> FALSE]
IsoDateStr(y, m, d) == [kind |-> "date", y |-> y, m |-> m, d |-> d, iso |-> TRUE]
NaNDateStr == [kind |-> "nan", y |-> 0, m |-> 0, d |-> 0, iso |-> FALSE]

\* "HH:MM"; kind "nan" is a string whose pieces are not numbers
TimeStr(hh, mm) == [kind |-> "time", hh |-> hh, mm |-> mm]
NaNTimeStr == [kind |-> "nan", hh |-> 0, mm |-> 0]

\* the result of an expression that may throw
Threw == [threw |-> TRUE, date |-> InvalidDate]
Returned(date) == [threw |-> FALSE, date |-> date]

\* parseDateTime(dateString, timeString = '00:00'); the arguments are
\* optional values.  An undefined dateString throws on .split; an undefined
\* timeString takes the default.  split('T')[0] drops the iso suffix.
parseDateTime(dateString, timeString) ==
    IF dateString = Missing THEN Threw
    ELSE LET ds == dateString[1]
             ts == IF timeString = Missing THEN TimeStr(0, 0) ELSE timeString[1]
         IN  IF ds.kind = "nan" THEN Returned(InvalidDate)
             ELSE IF ts.kind = "nan" THEN Returned(InvalidDate)
             ELSE Returned(NewDate(ds.y, ds.m - 1, ds.d, ts.hh, ts.mm))

\* formatDateToYYYYMMDD(date): the local year, month and day of a valid date
formatDateToYYYYMMDD(date) ==
    IF date.valid THEN DateStr(GetFullYear(date), GetMonth(date) + 1, GetDate(date))
    ELSE NaNDateStr

\* Date.prototype.toISOString(): the UTC fields, to the minute; throws a
\* RangeError on the invalid date
toISOString(date) ==
    [y |-> GetFullYear(date), mo |-> GetMonth(date) + 1, d |-> GetDate(date),
     hh |-> GetHours(date), mi |-> GetMinutes(date)]

(***************************************************************************)
(* The series expansion of PUT ?seriesId, events.js lines 105-133.         *)
(***************************************************************************)
DayKeys == 0 .. 6

\* the selection without the default of every day
SelectedDaysNoDefault(recurring_days) ==
    {k \in DOMAIN recurring_days : recurring_days[k]}

\* Object.keys(recurring_days).filter(day => recurring_days[day]).map(Number),
\* with the default of every day for an empty selection
SelectedDays(recurring_days) ==
    LET picked == {k \in DOMAIN recurring_days : recurring_days[k]}
    IN  IF Cardinality(picked) = 0 THEN {0, 1, 2, 3, 4, 5, 6} ELSE picked

MeetAndGreetMinutes == 30

\* the duration as the request gives it, whatever the type
FinalDurationAsGiven(type, duration) == duration

\* const finalDuration = type === 'meet-and-greet' ? 30 : duration;
\* an undefined duration makes the product NaN
FinalDuration(type, duration) ==
    IF type = Some("meet-and-greet") THEN Some(MeetAndGreetMinutes) ELSE duration

\* new Date(eventStart.getTime() + finalDuration * 60000)
EventEnd(eventStart, finalDuration) ==
    IF eventStart.valid /\ finalDuration # Missing
    THEN DateOfTime(TRUE, eventStart.t + finalDuration[1])
    ELSE DateOfTime(FALSE, 0)

\* the loop stops a day before the end bound
LoopContinuesExclusive(currentDate, untilDate) ==
    currentDate.valid /\ untilDate.valid /\ currentDate.t + MinutesPerDay <= untilDate.t

\* the loop runs until the cursor hits the end bound exactly
LoopContinuesNotEqual(currentDate, untilDate) ==
    currentDate.valid /\ untilDate.valid /\ currentDate.t # untilDate.t

\* while (currentDate <= untilDate)
LoopContinues(currentDate, untilDate) == DateLE(currentDate, untilDate)

\* the cursor set to its own day: no advance
NextCursorStuck(currentDate) == SetDate(currentDate, GetDate(currentDate))

\* currentDate.setDate(currentDate.getDate() + 1)
NextCursor(currentDate) == SetDate(currentDate, GetDate(currentDate) + 1)

(***************************************************************************)
(* The events table.  No statement of the handler tells two rows with the  *)
(* same column values apart, so the table is the bag of its rows.          *)
(***************************************************************************)
Row(uid, summary, type, dtstart, dtend, description, is_recurring, recurring_days, series_id, recur_until, series_start_date) ==
    [uid |-> uid, summary |-> summary, type |-> type, dtstart |-> dtstart,
     dtend |-> dtend, description |-> description, is_recurring |-> is_recurring,
     recurring_days |-> recurring_days, series_id |-> series_id,
     recur_until |-> recur_until, series_start_date |-> series_start_date]

\* the bag of the rows of a sequence
RECURSIVE BagOfSeq(_)
BagOfSeq(rows) ==
    IF rows = <<>> THEN EmptyBag ELSE BagOfSeq(Tail(rows)) (+) SetToBag({Head(rows)})

\* the table without the rows of a set
WithoutRows(table, gone) ==
    [r \in (DOMAIN table) \ gone |-> table[r]]

\* the rows DELETE FROM events WHERE series_id = $1 matches; NULL matches nothing
SeriesRows(table, seriesId) ==
    {r \in DOMAIN table : r.series_id = Some(seriesId)}

\* the rows ... WHERE uid = $1 matches
UidRows(table, uid) ==
    {r \in DOMAIN table : r.uid = Some(uid)}

\* x || null and x || false on an optional value.  The requests of the
\* model hold no empty string and no 0, so the falsy values are undefined
\* (NULL, false) and false itself
OrNull(x) == IF x = Missing THEN NULL ELSE x
OrFalse(x) == IF x = Missing THEN FALSE ELSE x[1]

\* the values of the INSERT of POST, events.js lines 70-75
PostValues(ev) ==
    Row(ev.uid, ev.summary, ev.type, ev.dtstart, ev.dtend,
        OrNull(ev.description), OrFalse(ev.is_recurring),
        OrNull(ev.recurring_days), OrNull(ev.series_id),
        OrNull(ev.recur_until), OrNull(ev.series_start_date))

\* an UPDATE that also overwrites uid with the body's
UpdateValuesUidToo(row, eventData) ==
    Row(eventData.uid, eventData.summary, eventData.type, eventData.dtstart, eventData.dtend,
        OrNull(eventData.description), OrFalse(eventData.is_recurring),
        OrNull(eventData.recurring_days), OrNull(eventData.series_id),
        OrNull(eventData.recur_until), OrNull(eventData.series_start_date))

\* the values of the UPDATE of PUT ?uid, events.js lines 155-161: every column
\* but uid is overwritten
UpdateValues(row, eventData) ==
    Row(row.uid, eventData.summary, eventData.type, eventData.dtstart, eventData.dtend,
        OrNull(eventData.description), OrFalse(eventData.is_recurring),
        OrNull(eventData.recurring_days), OrNull(eventData.series_id),
        OrNull(eventData.recur_until), OrNull(eventData.series_start_date))

\* the values of the INSERT of PUT ?seriesId, events.js lines 124-129
InsertValues(uuid, eventData, seriesId, eventStart, eventEnd) ==
    Row(Some(<<"manual", uuid>>), eventData.summary, eventData.type,
        Some(toISOString(eventStart)), Some(toISOString(eventEnd)),
        OrNull(eventData.description), TRUE, eventData.recurring_days,
        Some(seriesId), eventData.recur_until, eventData.series_start_date)

\* UPDATE events SET ... WHERE uid = $11
UpdateTable(table, uid, eventData) ==
    LET hit == UidRows(table, uid)
        n == IF hit = {} THEN 0 ELSE BagCardinality([r \in hit |-> table[r]])
    IN  IF hit = {} THEN table
        ELSE WithoutRows(table, hit)
               (+) [r \in {UpdateValues(CHOOSE x \in hit : TRUE, eventData)} |-> n]

(***************************************************************************)
(* Requests.                                                               *)
(***************************************************************************)
\* summaries are strings the autocomplete handler searches: sequences of
\* characters
Fluffy == <<"F", "l", "u", "f", "f", "y">>
Rex == <<"R", "e", "x">>

\* a parsed JSON object: every field the handler reads, each optional
EmptyObj ==
    [uid |-> Missing, summary |-> Missing, type |-> Missing, dtstart |-> Missing,
     dtend |-> Missing, time |-> Missing, duration |-> Missing,
     description |-> Missing, is_recurring |-> Missing, recurring_days |-> Missing,
     series_id |-> Missing, recur_until |-> Missing, series_start_date |-> Missing]

\* event.body: text JSON.parse rejects ("bad"), an array of objects, or an object
BadBody == [kind |-> "bad", list |-> <<>>, obj |-> EmptyObj]
ArrayBody(list) == [kind |-> "array", list |-> list, obj |-> EmptyObj]
ObjectBody(obj) == [kind |-> "object", list |-> <<>>, obj |-> obj]

\* the named fields of the parsed body: an array has none of them
EventData(body) == IF body.kind = "object" THEN body.obj ELSE EmptyObj

Request(method, uid, seriesId, body) ==
    [method |-> method, uid |-> uid, seriesId |-> seriesId, body |-> body]

NoRequest == Request("", Missing, Missing, BadBody)

\* recurring_days as the object {0: b0, .., 6: b6}
Days(selection) == [k \in DayKeys |-> k \in selection]

Iso(y, mo, d, hh, mi) == [y |-> y, mo |-> mo, d |-> d, hh |-> hh, mi |-> mi]

SeriesBody(start, until, days, time, duration, type) ==
    ObjectBody([EmptyObj EXCEPT !.summary = Some(Fluffy), !.type = Some(type),
                                !.time = time, !.duration = duration,
                                !.recurring_days = days, !.recur_until = until,
                                !.series_start_date = start])

(***************************************************************************)
(* The requests of Spec: a small pool around the scenarios of the          *)
(* specification.                                                          *)
(***************************************************************************)
StandaloneEvent ==
    [EmptyObj EXCEPT !.uid = Some(<<"client", 1>>), !.summary = Some(Rex),
                     !.type = Some("walk"),
                     !.dtstart = Some(Iso(2024, 1, 2, 9, 0)),
                     !.dtend = Some(Iso(2024, 1, 2, 10, 0))]

SeriesEvent ==
    [EmptyObj EXCEPT !.uid = Some(<<"client", 2>>), !.summary = Some(Fluffy),
                     !.type = Some("walk"),
                     !.dtstart = Some(Iso(2024, 1, 8, 9, 0)),
                     !.dtend = Some(Iso(2024, 1, 8, 10, 0)),
                     !.is_recurring = Some(TRUE),
                     !.recurring_days = Some(Days({1})),
                     !.series_id = Some("s1"),
                     !.recur_until = Some(DateStr(2024, 1, 8)),
                     !.series_start_date = Some(DateStr(2024, 1, 8))]

\* a second instance of the series of SeriesEvent
SiblingEvent ==
    [SeriesEvent EXCEPT !.uid = Some(<<"client", 3>>),
                        !.dtstart = Some(Iso(2024, 1, 8, 14, 0)),
                        !.dtend = Some(Iso(2024, 1, 8, 15, 0))]

\* SeriesEvent under another name
RenamedEvent == [SeriesEvent EXCEPT !.summary = Some(Rex)]

EventObjs == {StandaloneEvent, SeriesEvent, SiblingEvent}

RECURSIVE SeqsUpTo(_, _)
SeqsUpTo(S, n) ==
    IF n = 0 THEN {<<>>}
    ELSE LET shorter == SeqsUpTo(S, n - 1)
         IN  shorter \cup {Append(q, x) : q \in shorter, x \in S}

\* Mon/Wed/Fri of 2024-01-01 .. 2024-01-05 at 09:00 for 60 minutes
ScenarioSpec ==
    SeriesBody(Some(DateStr(2024, 1, 1)), Some(DateStr(2024, 1, 5)),
               Some(Days({1, 3, 5})), Some(TimeStr(9, 0)), Some(60), "walk")

\* no weekday selected, 2024-01-06 .. 2024-01-07 at 10:00, a meet-and-greet
EveryDaySpec ==
    SeriesBody(Some(DateStr(2024, 1, 6)), Some(IsoDateStr(2024, 1, 7)),
               Some(Days({})), Some(TimeStr(10, 0)), Some(15), "meet-and-greet")

\* recur_until before series_start_date
InvertedSpec ==
    SeriesBody(Some(DateStr(2024, 1, 5)), Some(DateStr(2024, 1, 1)),
               Some(Days({1, 3, 5})), Some(TimeStr(9, 0)), Some(60), "walk")

\* no recurring_days field: Object.keys(undefined) throws
NoDaysSpec ==
    SeriesBody(Some(DateStr(2024, 1, 1)), Some(DateStr(2024, 1, 5)),
               Missing, Some(TimeStr(9, 0)), Some(60), "walk")

\* no duration field: the end of the first instance is the invalid date
NoDurationSpec ==
    SeriesBody(Some(DateStr(2024, 1, 1)), Some(DateStr(2024, 1, 2)),
               Some(Days({2})), Some(TimeStr(9, 0)), Missing, "walk")

\* a start date that is not a date
NaNStartSpec ==
    SeriesBody(Some(NaNDateStr), Some(DateStr(2024, 1, 5)),
               Some(Days({1, 3, 5})), Some(TimeStr(9, 0)), Some(60), "walk")

\* an end date that is not a date
NaNUntilSpec ==
    SeriesBody(Some(DateStr(2024, 1, 1)), Some(NaNDateStr),
               Some(Days({1, 3, 5})), Some(TimeStr(9, 0)), Some(60), "walk")

\* a time that is not a time
NaNTimeSpec ==
    SeriesBody(Some(DateStr(2024, 1, 1)), Some(DateStr(2024, 1, 5)),
               Some(Days({1, 3, 5})), Some(NaNTimeStr), Some(60), "walk")

\* a duration below zero
NegativeDurationSpec ==
    SeriesBody(Some(DateStr(2024, 1, 1)), Some(DateStr(2024, 1, 1)),
               Some(Days({1})), Some(TimeStr(9, 0)), Some(-60), "walk")

SeriesSpecs ==
    {ScenarioSpec, EveryDaySpec, InvertedSpec, NoDaysSpec, NoDurationSpec, NaNStartSpec,
     NaNUntilSpec, NaNTimeSpec, NegativeDurationSpec}

Requests ==
    {Request("GET", Missing, Missing, BadBody),
     Request("PATCH", Missing, Missing, BadBody),
     Request("POST", Missing, Missing, BadBody),
     Request("POST", Missing, Missing, ObjectBody(StandaloneEvent)),
     Request("PUT", Missing, Missing, ObjectBody(StandaloneEvent)),
     Request("PUT", Missing, Missing, BadBody),
     Request("PUT", Some(<<"client", 1>>), Missing, BadBody),
     Request("PUT", Some(<<"client", 2>>), Missing, ObjectBody(StandaloneEvent)),
     Request("PUT", Some(<<"client", 2>>), Missing, ObjectBody(RenamedEvent)),
     Request("DELETE", Missing, Missing, BadBody),
     Request("DELETE", Some(<<"client", 1>>), Missing, BadBody),
     Request("DELETE", Missing, Some("s1"), BadBody),
     Request("DELETE", Some(<<"client", 2>>), Some("s1"), BadBody)}
    \cup {Request("POST", Missing, Missing, ArrayBody(list)) :
            list \in SeqsUpTo(EventObjs, MaxBatch)}
    \cup {Request("PUT", Missing, Some(sid), body) :
            sid \in {"s1", "s2"}, body \in SeriesSpecs}
    \cup {Request("PUT", Some(<<"client", 2>>), Some("s1"), ScenarioSpec),
          Request("PUT", Some(<<"client", 1>>), Some("s1"), ScenarioSpec)}

(***************************************************************************)
(* The series specs of SpecExpand: every weekday selection over a window   *)
(* of dates that holds the leap day, a month's end and a Sunday.           *)
(***************************************************************************)
\* 2024-02-28 (a Wednesday) and the MaxSpan - 1 days after it, as the client
\* writes them
WindowDate(k) == IF k < 2 THEN DateStr(2024, 2, 28 + k) ELSE DateStr(2024, 3, k - 1)

WindowDates == {WindowDate(k) : k \in 0 .. MaxSpan - 1}

ExpandSpecs ==
    {SeriesBody(Some(start), Some(until), Some(days), Some(time), td[2], td[1]) :
        start \in WindowDates \cup {NaNDateStr},
        until \in WindowDates \cup {NaNDateStr},
        days \in [DayKeys -> BOOLEAN],
        time \in {TimeStr(0, 0), TimeStr(23, 59)},
        td \in {<<"meet-and-greet", Missing>>, <<"meet-and-greet", Some(60)>>,
                <<"walk", Some(60)>>, <<"walk", Some(15)>>}}

(***************************************************************************)
(* One invocation of exports.handler.  pc is the await the invocation is   *)
(* suspended at; pre, iters and log are history (the table when the        *)
(* request arrived, the iterations of the expansion loop, the statements   *)
(* sent to the store with their outcome, the error last thrown).           *)
(***************************************************************************)
Procs == {"p1", "p2"}

NoTx == [active |-> FALSE, del |-> {}, ins |-> <<>>]

IdleH ==
    [pc |-> "idle", req |-> NoRequest, pre |-> EmptyBag, held |-> FALSE,
     releases |-> 0, tx |-> NoTx, i |-> 0, cur |-> InvalidDate,
     until |-> InvalidDate, sel |-> {}, iters |-> 0, resp |-> 0, log |-> <<>>,
     err |-> "none", errorBody |-> "none"]

NoPrev == [put |-> FALSE, seriesId |-> "", body |-> BadBody, pairs |-> EmptyBag]

\* return { statusCode: status, ... }
Respond(hp, status) == [hp EXCEPT !.pc = "done", !.resp = status]

\* catch (e) { await client.query('ROLLBACK'); ... }
ToRollback(hp) == [hp EXCEPT !.pc = "rollback"]

\* a statement sent to the store; one that fails rejects with an error
Logged(hp, stmt, ok) ==
    [hp EXCEPT !.log = Append(@, <<stmt, ok>>), !.err = IF ok THEN @ ELSE stmt]

\* an exception thrown by the handler's own code
Thrown(hp, e) == [hp EXCEPT !.err = e]

\* the outer catch with the error's own text as the body
CaughtLeaks(hp) == [hp EXCEPT !.pc = "done", !.resp = 500, !.errorBody = hp.err]

\* catch (error) { return { statusCode: 500,
\*   body: JSON.stringify({ error: 'Internal Server Error' }) } }
Caught(hp) ==
    [hp EXCEPT !.pc = "done", !.resp = 500, !.errorBody = "Internal Server Error"]

\* a dispatch whose DELETE branch looks at seriesId before uid
DispatchSeriesFirst(r, table) ==
    LET hp == [IdleH EXCEPT !.req = r, !.pre = table]
    IN  CASE r.method = "GET" -> [hp EXCEPT !.pc = "get"]
          [] r.method = "POST" ->
                IF r.body.kind = "bad" THEN Caught(Thrown(hp, "SyntaxError"))
                ELSE [hp EXCEPT !.pc = "connect"]
          [] r.method = "PUT" ->
                IF r.body.kind = "bad" THEN Caught(Thrown(hp, "SyntaxError"))
                ELSE IF r.seriesId # Missing THEN [hp EXCEPT !.pc = "connect"]
                ELSE IF r.uid # Missing THEN [hp EXCEPT !.pc = "update"]
                ELSE Respond(hp, 405)
          [] r.method = "DELETE" ->
                IF r.seriesId # Missing THEN [hp EXCEPT !.pc = "delete_series"]
                ELSE IF r.uid # Missing THEN [hp EXCEPT !.pc = "delete_uid"]
                ELSE Respond(hp, 405)
          [] OTHER -> Respond(hp, 405)

\* the synchronous head of the handler, up to its first await: lines 45-62,
\* 92-97, 149, 171-182
Dispatch(r, table) ==
    LET hp == [IdleH EXCEPT !.req = r, !.pre = table]
    IN  CASE r.method = "GET" -> [hp EXCEPT !.pc = "get"]
          [] r.method = "POST" ->
                IF r.body.kind = "bad" THEN Caught(Thrown(hp, "SyntaxError"))
                ELSE [hp EXCEPT !.pc = "connect"]
          [] r.method = "PUT" ->
                IF r.body.kind = "bad" THEN Caught(Thrown(hp, "SyntaxError"))
                ELSE IF r.seriesId # Missing THEN [hp EXCEPT !.pc = "connect"]
                ELSE IF r.uid # Missing THEN [hp EXCEPT !.pc = "update"]
                ELSE Respond(hp, 405)
          [] r.method = "DELETE" ->
                IF r.uid # Missing THEN [hp EXCEPT !.pc = "delete_uid"]
                ELSE IF r.seriesId # Missing THEN [hp EXCEPT !.pc = "delete_series"]
                ELSE Respond(hp, 405)
          [] OTHER -> Respond(hp, 405)

Receive(p) ==
    /\ h[p].pc = "idle"
    /\ budget[p] > 0
    /\ \E r \in Requests : h' = [h EXCEPT ![p] = Dispatch(r, events)]
    /\ budget' = [budget EXCEPT ![p] = @ - 1]
    /\ UNCHANGED <<events, uuids, prev, names>>

\* const { rows } = await pool.query('SELECT * FROM events ORDER BY dtstart ASC;')
Get(p) ==
    /\ h[p].pc = "get"
    /\ \E ok \in BOOLEAN :
          h' = [h EXCEPT ![p] = IF ok THEN Respond(Logged(@, "SELECT", TRUE), 200)
                                ELSE Caught(Logged(@, "SELECT", FALSE))]
    /\ UNCHANGED <<events, budget, uuids, prev, names>>

\* const client = await pool.connect(): outside the inner try
Connect(p) ==
    /\ h[p].pc = "connect"
    /\ \E ok \in BOOLEAN :
          h' = [h EXCEPT ![p] =
                  IF ok THEN [@ EXCEPT !.pc = "begin", !.held = TRUE]
                  ELSE Caught(Thrown(@, "connect"))]
    /\ UNCHANGED <<events, budget, uuids, prev, names>>

\* await client.query('BEGIN'), then up to the next await: the for-of of
\* POST over the parsed body (an object is not iterable), or the DELETE of
\* PUT ?seriesId
AfterBegin(hp) ==
    IF hp.req.method = "POST"
    THEN IF hp.req.body.kind # "array" THEN ToRollback(Thrown(hp, "TypeError"))
         ELSE IF hp.req.body.list = <<>> THEN [hp EXCEPT !.pc = "commit"]
         ELSE [hp EXCEPT !.pc = "post_insert", !.i = 1]
    ELSE [hp EXCEPT !.pc = "put_delete"]

Begin(p) ==
    /\ h[p].pc = "begin"
    /\ \E ok \in BOOLEAN :
          h' = [h EXCEPT ![p] =
                  IF ok THEN AfterBegin([Logged(@, "BEGIN", TRUE) EXCEPT !.tx.active = TRUE])
                  ELSE ToRollback(Logged(@, "BEGIN", FALSE))]
    /\ UNCHANGED <<events, budget, uuids, prev, names>>

\* an INSERT on the client: the row joins the transaction's insertions
TxInsert(tx, row) == [tx EXCEPT !.ins = Append(@, row)]

\* the INSERT sent through the pool: committed on its own, outside the
\* transaction
PostInsertAutocommit(p) ==
    /\ h[p].pc = "post_insert"
    /\ \E ok \in BOOLEAN :
          IF ok
          THEN /\ events' = events (+) SetToBag({PostValues(h[p].req.body.list[h[p].i])})
               /\ h' = [h EXCEPT ![p] =
                          [Logged(@, "INSERT", TRUE) EXCEPT
                             !.i = @ + 1,
                             !.pc = IF h[p].i = Len(h[p].req.body.list)
                                    THEN "commit" ELSE "post_insert"]]
          ELSE /\ events' = events
               /\ h' = [h EXCEPT ![p] = ToRollback(Logged(@, "INSERT", FALSE))]
    /\ UNCHANGED <<budget, uuids, prev, names>>

\* await client.query(query, values) of the POST loop, lines 65-77
PostInsert(p) ==
    /\ h[p].pc = "post_insert"
    /\ \E ok \in BOOLEAN :
          h' = [h EXCEPT ![p] =
                  IF ok
                  THEN [Logged(@, "INSERT", TRUE) EXCEPT
                          !.tx = TxInsert(@, PostValues(h[p].req.body.list[h[p].i])),
                          !.i = @ + 1,
                          !.pc = IF h[p].i = Len(h[p].req.body.list)
                                 THEN "commit" ELSE "post_insert"]
                  ELSE ToRollback(Logged(@, "INSERT", FALSE))]
    /\ UNCHANGED <<events, budget, uuids, prev, names>>

\* a DELETE that matches no row
TxDeleteNothing(tx, table, seriesId) == tx

\* the store locks the rows a transaction has deleted until it ends: a
\* statement of another invocation that would change one of them waits
LockedByOther(p, rows) ==
    \E q \in Procs \ {p} : h[q].tx.active /\ h[q].tx.del \cap rows # {}

\* a DELETE that also takes the rows that belong to no series
TxDeleteSeriesOrNone(tx, table, seriesId) ==
    [tx EXCEPT !.del = @ \cup SeriesRows(table, seriesId)
                         \cup {r \in DOMAIN table : r.series_id = NULL},
               !.ins = SelectSeq(@, LAMBDA r : r.series_id # Some(seriesId))]

\* DELETE FROM events WHERE series_id = $1 on the client: the matching rows
\* of the table and of the transaction's own insertions go
TxDeleteSeries(tx, table, seriesId) ==
    [tx EXCEPT !.del = @ \cup SeriesRows(table, seriesId),
               !.ins = SelectSeq(@, LAMBDA r : r.series_id # Some(seriesId))]

\* the two bounds compared before the loop: a range that ends before it
\* starts is thrown out and the transaction rolled back
AfterDeleteRejectsInverted(hp) ==
    LET eventData == EventData(hp.req.body)
        start == parseDateTime(eventData.series_start_date, Missing)
        until == parseDateTime(eventData.recur_until, Some(TimeStr(23, 59)))
    IN  IF eventData.recurring_days = Missing \/ start.threw \/ until.threw
        THEN ToRollback(Thrown(hp, "TypeError"))
        ELSE IF start.date.valid /\ until.date.valid /\ until.date.t < start.date.t
        THEN ToRollback(Thrown(hp, "RangeError"))
        ELSE [hp EXCEPT !.pc = "put_loop",
                        !.sel = SelectedDays(eventData.recurring_days[1]),
                        !.cur = start.date,
                        !.until = until.date]

\* lines 105-112: the selection and the two bounds, computed once the
\* DELETE has returned
AfterDelete(hp) ==
    LET eventData == EventData(hp.req.body)
        start == parseDateTime(eventData.series_start_date, Missing)
        until == parseDateTime(eventData.recur_until, Some(TimeStr(23, 59)))
    IN  IF eventData.recurring_days = Missing \/ start.threw \/ until.threw
        THEN ToRollback(Thrown(hp, "TypeError"))
        ELSE [hp EXCEPT !.pc = "put_loop",
                        !.sel = SelectedDays(eventData.recurring_days[1]),
                        !.cur = start.date,
                        !.until = until.date]

\* the DELETE sent through the pool: committed on its own, outside the
\* transaction
PutDeleteAutocommit(p) ==
    /\ h[p].pc = "put_delete"
    /\ \E ok \in BOOLEAN :
          IF ok
          THEN /\ events' = WithoutRows(events, SeriesRows(events, h[p].req.seriesId[1]))
               /\ h' = [h EXCEPT ![p] = AfterDelete(Logged(@, "DELETE", TRUE))]
          ELSE /\ events' = events
               /\ h' = [h EXCEPT ![p] = ToRollback(Logged(@, "DELETE", FALSE))]
    /\ UNCHANGED <<budget, uuids, prev, names>>

PutDelete(p) ==
    /\ h[p].pc = "put_delete"
    /\ ~LockedByOther(p, SeriesRows(events, h[p].req.seriesId[1]))
    /\ \E ok \in BOOLEAN :
          h' = [h EXCEPT ![p] =
                  IF ok
                  THEN AfterDelete([Logged(@, "DELETE", TRUE) EXCEPT
                          !.tx = TxDeleteSeries(@, events, h[p].req.seriesId[1])])
                  ELSE ToRollback(Logged(@, "DELETE", FALSE))]
    /\ UNCHANGED <<events, budget, uuids, prev, names>>

\* one evaluation of the loop condition and, when it holds, one iteration of
\* the loop body, lines 114-133
PutLoop(p) ==
    /\ h[p].pc = "put_loop"
    /\ LET hp == h[p]
           eventData == EventData(hp.req.body)
           eventStart == parseDateTime(Some(formatDateToYYYYMMDD(hp.cur)), eventData.time).date
           finalDuration == FinalDuration(eventData.type, eventData.duration)
           eventEnd == EventEnd(eventStart, finalDuration)
           advanced == [hp EXCEPT !.cur = NextCursor(@), !.iters = @ + 1]
       IN  IF ~LoopContinues(hp.cur, hp.until)
           THEN /\ h' = [h EXCEPT ![p].pc = "commit"]
                /\ UNCHANGED uuids
           ELSE IF GetDay(hp.cur) \notin hp.sel
           THEN /\ h' = [h EXCEPT ![p] = advanced]
                /\ UNCHANGED uuids
           ELSE IF ~eventStart.valid \/ ~eventEnd.valid
           THEN \* toISOString throws a RangeError
                /\ h' = [h EXCEPT ![p] = ToRollback(Thrown([hp EXCEPT !.iters = @ + 1],
                                                             "RangeError"))]
                /\ UNCHANGED uuids
           ELSE /\ uuids' = uuids + 1
                /\ \E ok \in BOOLEAN :
                      h' = [h EXCEPT ![p] =
                              IF ok
                              THEN [Logged(advanced, "INSERT", TRUE) EXCEPT
                                      !.tx = TxInsert(@, InsertValues(uuids, eventData,
                                                 hp.req.seriesId[1], eventStart, eventEnd))]
                              ELSE ToRollback(Logged([hp EXCEPT !.iters = @ + 1],
                                                     "INSERT", FALSE))]
    /\ UNCHANGED <<events, budget, prev, names>>

\* the insertions applied, the deletions lost
CommittedInsertsOnly(table, tx) == table (+) BagOfSeq(tx.ins)

\* the table once the transaction's deletions and insertions are applied
Committed(table, tx) == WithoutRows(table, tx.del) (+) BagOfSeq(tx.ins)

\* finally { client.release(); }
Released(hp) == [hp EXCEPT !.held = FALSE, !.releases = @ + 1, !.tx = NoTx]

\* a COMMIT whose outcome is not looked at: the success response follows
\* whether or not the store committed
CommitUnchecked(p) ==
    /\ h[p].pc = "commit"
    /\ \E ok \in BOOLEAN :
          /\ events' = IF ok THEN Committed(events, h[p].tx) ELSE events
          /\ h' = [h EXCEPT ![p] =
                     Respond(Released(Logged(@, "COMMIT", ok)),
                             IF h[p].req.method = "POST" THEN 201 ELSE 200)]
    /\ UNCHANGED <<budget, uuids, prev, names>>

\* await client.query('COMMIT'), then the return of 201 (POST) or 200 (PUT)
Commit(p) ==
    /\ h[p].pc = "commit"
    /\ \E ok \in BOOLEAN :
          IF ok
          THEN /\ events' = Committed(events, h[p].tx)
               /\ h' = [h EXCEPT ![p] =
                          Respond(Released(Logged(@, "COMMIT", TRUE)),
                                  IF h[p].req.method = "POST" THEN 201 ELSE 200)]
          ELSE /\ events' = events
               /\ h' = [h EXCEPT ![p] = ToRollback(Logged(@, "COMMIT", FALSE))]
    /\ UNCHANGED <<budget, uuids, prev, names>>

\* a catch block that releases the client after the ROLLBACK, without a
\* finally: a ROLLBACK that throws skips the release
RollbackNoFinally(p) ==
    /\ h[p].pc = "rollback"
    /\ \E ok \in BOOLEAN :
          h' = [h EXCEPT ![p] =
                  IF ok THEN Caught(Released(Logged(@, "ROLLBACK", TRUE)))
                  ELSE Caught([Logged(@, "ROLLBACK", FALSE) EXCEPT !.tx = NoTx])]
    /\ UNCHANGED <<events, budget, uuids, prev, names>>

\* await client.query('ROLLBACK'); throw e; the finally releases the client
\* and the outer catch answers 500.  Whether or not the ROLLBACK statement
\* gets through, the store ends the transaction without applying it.
Rollback(p) ==
    /\ h[p].pc = "rollback"
    /\ \E ok \in BOOLEAN :
          h' = [h EXCEPT ![p] = Caught(Released(Logged(@, "ROLLBACK", ok)))]
    /\ UNCHANGED <<events, budget, uuids, prev, names>>

\* await pool.query(UPDATE ... WHERE uid = $11), lines 149-167
Update(p) ==
    /\ h[p].pc = "update"
    /\ ~LockedByOther(p, UidRows(events, h[p].req.uid[1]))
    /\ \E ok \in BOOLEAN :
          IF ok
          THEN /\ events' = UpdateTable(events, h[p].req.uid[1], EventData(h[p].req.body))
               /\ h' = [h EXCEPT ![p] = Respond(Logged(@, "UPDATE", TRUE), 200)]
          ELSE /\ events' = events
               /\ h' = [h EXCEPT ![p] = Caught(Logged(@, "UPDATE", FALSE))]
    /\ UNCHANGED <<budget, uuids, prev, names>>

\* await pool.query('DELETE FROM events WHERE uid = $1;'), lines 172-175
DeleteUid(p) ==
    /\ h[p].pc = "delete_uid"
    /\ ~LockedByOther(p, UidRows(events, h[p].req.uid[1]))
    /\ \E ok \in BOOLEAN :
          IF ok
          THEN /\ events' = WithoutRows(events, UidRows(events, h[p].req.uid[1]))
               /\ h' = [h EXCEPT ![p] = Respond(Logged(@, "DELETE", TRUE), 200)]
          ELSE /\ events' = events
               /\ h' = [h EXCEPT ![p] = Caught(Logged(@, "DELETE", FALSE))]
    /\ UNCHANGED <<budget, uuids, prev, names>>

\* a DELETE by series that answers 404 when no row matched
DeleteSeriesNotFound(p) ==
    /\ h[p].pc = "delete_series"
    /\ \E ok \in BOOLEAN :
          IF ok
          THEN /\ events' = WithoutRows(events, SeriesRows(events, h[p].req.seriesId[1]))
               /\ h' = [h EXCEPT ![p] =
                          Respond(Logged(@, "DELETE", TRUE),
                                  IF SeriesRows(events, h[p].req.seriesId[1]) = {}
                                  THEN 404 ELSE 200)]
          ELSE /\ events' = events
               /\ h' = [h EXCEPT ![p] = Caught(Logged(@, "DELETE", FALSE))]
    /\ UNCHANGED <<budget, uuids, prev, names>>

\* await pool.query('DELETE FROM events WHERE series_id = $1;'), lines 176-179
DeleteSeries(p) ==
    /\ h[p].pc = "delete_series"
    /\ ~LockedByOther(p, SeriesRows(events, h[p].req.seriesId[1]))
    /\ \E ok \in BOOLEAN :
          IF ok
          THEN /\ events' = WithoutRows(events, SeriesRows(events, h[p].req.seriesId[1]))
               /\ h' = [h EXCEPT ![p] = Respond(Logged(@, "DELETE", TRUE), 200)]
          ELSE /\ events' = events
               /\ h' = [h EXCEPT ![p] = Caught(Logged(@, "DELETE", FALSE))]
    /\ UNCHANGED <<budget, uuids, prev, names>>

\* the (dtstart, dtend) pairs of the rows of a series, with their numbers
RECURSIVE PairsOfRows(_, _)
PairsOfRows(table, rows) ==
    IF rows = {} THEN EmptyBag
    ELSE LET r == CHOOSE x \in rows : TRUE
         IN  PairsOfRows(table, rows \ {r})
               (+) [pr \in {<<r.dtstart, r.dtend>>} |-> table[r]]

SeriesPairs(table, seriesId) == PairsOfRows(table, SeriesRows(table, seriesId))

IsSeriesPut(r) == r.method = "PUT" /\ r.body.kind # "bad" /\ r.seriesId # Missing

\* the response is delivered and the invocation ends; prev remembers a
\* series replacement that succeeded, for the request that follows it
Return(p) ==
    /\ h[p].pc = "done"
    /\ h' = [h EXCEPT ![p] = IdleH]
    /\ prev' = IF IsSeriesPut(h[p].req) /\ h[p].resp = 200
               THEN [put |-> TRUE, seriesId |-> h[p].req.seriesId[1],
                     body |-> h[p].req.body,
                     pairs |-> SeriesPairs(events, h[p].req.seriesId[1])]
               ELSE NoPrev
    /\ UNCHANGED <<events, budget, uuids, names>>

(***************************************************************************)
(* The autocomplete handler, getPetNames.js.  Strings are sequences of     *)
(* characters; the store compares and orders them character by character   *)
(* in code-point order.                                                    *)
(***************************************************************************)
Flash == <<"F", "l", "a", "s", "h">>
Spike == <<"S", "p", "i", "k", "e">>

\* the characters of the model's summaries and queries, in code-point order
Alphabet ==
    <<"%", "F", "L", "R", "S", "\\", "_", "a", "b", "c", "d", "e", "f", "g",
      "h", "i", "k", "l", "m", "p", "s", "u", "x", "y">>

CharRank(c) == CHOOSE k \in DOMAIN Alphabet : Alphabet[k] = c

\* the lower-case form of a character
Lower(c) ==
    CASE c = "F" -> "f" [] c = "L" -> "l" [] c = "R" -> "r" [] c = "S" -> "s"
      [] OTHER -> c

\* text ILIKE pattern: % matches any run of characters, _ any one character,
\* a backslash takes the character after it literally, and any other
\* character matches itself in either case
RECURSIVE ILike(_, _)
ILike(text, pattern) ==
    IF pattern = <<>> THEN text = <<>>
    ELSE IF Head(pattern) = "%"
    THEN ILike(text, Tail(pattern)) \/ (text # <<>> /\ ILike(Tail(text), pattern))
    ELSE IF text = <<>> THEN FALSE
    ELSE IF Head(pattern) = "_" THEN ILike(Tail(text), Tail(pattern))
    ELSE IF Head(pattern) = "\\" /\ Len(pattern) >= 2
    THEN Lower(Head(text)) = Lower(pattern[2]) /\ ILike(Tail(text), Tail(Tail(pattern)))
    ELSE Lower(Head(text)) = Lower(Head(pattern)) /\ ILike(Tail(text), Tail(pattern))

\* a < b in the order of ORDER BY summary ASC
RECURSIVE Before(_, _)
Before(a, b) ==
    IF a = <<>> THEN b # <<>>
    ELSE IF b = <<>> THEN FALSE
    ELSE IF Head(a) = Head(b) THEN Before(Tail(a), Tail(b))
    ELSE CharRank(Head(a)) < CharRank(Head(b))

\* ORDER BY summary ASC over distinct values
RECURSIVE OrderBy(_)
OrderBy(S) ==
    IF S = {} THEN <<>>
    ELSE LET first == CHOOSE x \in S : \A y \in S \ {x} : Before(x, y)
         IN  <<first>> \o OrderBy(S \ {first})

\* LIMIT n
Limit(rows, n) == SubSeq(rows, 1, IF Len(rows) < n THEN Len(rows) ELSE n)

NamesLimit == 10

MinQueryLength == 2

\* SELECT DISTINCT summary FROM events WHERE summary ILIKE $1
\* ORDER BY summary ASC LIMIT 10; a NULL summary matches no pattern
SelectNames(table, pattern) ==
    Limit(OrderBy({r.summary[1] :
                     r \in {x \in DOMAIN table :
                              x.summary # NULL /\ ILike(x.summary[1], pattern)}}),
          NamesLimit)

\* one invocation of the handler of getPetNames.js; pre and queries are
\* history (the table when the request arrived, the queries sent), left the
\* requests still to arrive
IdleNames ==
    [pc |-> "idle", method |-> "", q |-> Missing, resp |-> 0, body |-> <<>>,
     pre |-> EmptyBag, queries |-> 0, left |-> 0]

\* lines 16-33: the synchronous head of the handler
NamesDispatch(n, method, q, table) ==
    LET np == [n EXCEPT !.method = method, !.q = q, !.pre = table, !.queries = 0,
                        !.body = <<>>, !.left = @ - 1]
    IN  IF method # "GET" THEN [np EXCEPT !.pc = "done", !.resp = 405]
        ELSE IF q = Missing \/ Len(q[1]) < MinQueryLength
        THEN [np EXCEPT !.pc = "done", !.resp = 200]
        ELSE [np EXCEPT !.pc = "query"]

\* the queries of SpecNames: none, too short, letters in either case, a
\* query no summary holds, and queries with the characters _ and %
Queries ==
    {Missing, Some(<<>>), Some(<<"f">>), Some(<<"f", "l">>), Some(<<"F", "L">>),
     Some(<<"i", "k">>), Some(<<"x", "x">>), Some(<<"_", "_">>),
     Some(<<"f", "%", "y">>)}

NamesReceive ==
    /\ names.pc = "idle"
    /\ names.left > 0
    /\ \E method \in {"GET", "POST"}, q \in Queries :
          names' = NamesDispatch(names, method, q, events)
    /\ UNCHANGED <<events, h, budget, uuids, prev>>

\* await pool.query(..., [`%${searchQuery}%`]), lines 39-58
NamesQuery ==
    /\ names.pc = "query"
    /\ \E ok \in BOOLEAN :
          names' = IF ok
                   THEN [names EXCEPT
                           !.pc = "done", !.resp = 200, !.queries = @ + 1,
                           !.body = SelectNames(events, <<"%">> \o names.q[1] \o <<"%">>)]
                   ELSE [names EXCEPT !.pc = "done", !.resp = 500, !.queries = @ + 1]
    /\ UNCHANGED <<events, h, budget, uuids, prev>>

NamesReturn ==
    /\ names.pc = "done"
    /\ names' = [names EXCEPT !.pc = "idle"]
    /\ UNCHANGED <<events, h, budget, uuids, prev>>

Init ==
    /\ events = EmptyBag
    /\ h = [p \in Procs |-> IdleH]
    /\ budget = [p \in Procs |-> IF p = "p1" THEN MaxRequests ELSE 0]
    /\ uuids = 0
    /\ prev = NoPrev
    /\ names = IdleNames

Next ==
    \E p \in Procs :
        \/ Receive(p)
        \/ Get(p)
        \/ Connect(p)
        \/ Begin(p)
        \/ PostInsert(p)
        \/ PutDelete(p)
        \/ PutLoop(p)
        \/ Commit(p)
        \/ Rollback(p)
        \/ Update(p)
        \/ DeleteUid(p)
        \/ DeleteSeries(p)
        \/ Return(p)

Spec == Init /\ [][Next]_vars

\* one PUT ?seriesId request, arrived with a series spec of ExpandSpecs
InitExpand ==
    /\ events = EmptyBag
    /\ \E body \in ExpandSpecs :
          h = [p \in Procs |->
                 IF p = "p1" THEN Dispatch(Request("PUT", Missing, Some("s1"), body), EmptyBag)
                 ELSE IdleH]
    /\ budget = [p \in Procs |-> 0]
    /\ uuids = 0
    /\ prev = NoPrev
    /\ names = IdleNames

NextExpand ==
    \E p \in Procs :
        \/ Connect(p)
        \/ Begin(p)
        \/ PutDelete(p)
        \/ PutLoop(p)
        \/ Commit(p)
        \/ Rollback(p)
        \/ Return(p)

SpecExpand == InitExpand /\ [][NextExpand]_vars

\* two invocations at once, each with one request on series s1: a
\* replacement by one of two specs, or the deletion of the series
RacingRequests ==
    {Request("PUT", Missing, Some("s1"), ScenarioSpec),
     Request("PUT", Missing, Some("s1"), EveryDaySpec),
     Request("DELETE", Missing, Some("s1"), BadBody)}

\* the table before the two requests: empty, or as a POST of a standalone
\* event and an instance of s1 leaves it
RacingTables ==
    {EmptyBag, SetToBag({PostValues(StandaloneEvent), PostValues(SeriesEvent)})}

InitRacing ==
    /\ events \in RacingTables
    /\ h = [p \in Procs |-> IdleH]
    /\ budget = [p \in Procs |-> 1]
    /\ uuids = 0
    /\ prev = NoPrev
    /\ names = IdleNames

ReceiveRacing(p) ==
    /\ h[p].pc = "idle"
    /\ budget[p] > 0
    /\ \E r \in RacingRequests : h' = [h EXCEPT ![p] = Dispatch(r, events)]
    /\ budget' = [budget EXCEPT ![p] = @ - 1]
    /\ UNCHANGED <<events, uuids, prev, names>>

NextRacing ==
    \E p \in Procs :
        \/ ReceiveRacing(p)
        \/ Connect(p)
        \/ Begin(p)
        \/ PutDelete(p)
        \/ PutLoop(p)
        \/ Commit(p)
        \/ Rollback(p)
        \/ DeleteSeries(p)
        \/ Return(p)

SpecRacing == InitRacing /\ [][NextRacing]_vars

\* names beyond those of the specification's example: "fla", "flb", ...
MaxExtraNames == 9

ExtraLetters == <<"a", "b", "c", "d", "e", "g", "h", "i", "k", "m">>

NamePool ==
    {Fluffy, Flash, Spike} \cup {<<"f", "l", ExtraLetters[k]>> : k \in 1 .. MaxExtraNames}

\* the row POST stores for an event with this name
SeedRow(name, k) ==
    PostValues([StandaloneEvent EXCEPT !.uid = Some(<<"seed", name, k>>),
                                       !.summary = Some(name)])

\* a table with `copies` events of each name
SeedTable(S, copies) == SetToBag({SeedRow(name, k) : name \in S, k \in 1 .. copies})

\* one request to the autocomplete handler over a table of stored events
InitNames ==
    /\ \E S \in SUBSET NamePool, copies \in 1 .. 2 : events = SeedTable(S, copies)
    /\ h = [p \in Procs |-> IdleH]
    /\ budget = [p \in Procs |-> 0]
    /\ uuids = 0
    /\ prev = NoPrev
    /\ names = [IdleNames EXCEPT !.left = 1]

NextNames ==
    \/ NamesReceive
    \/ NamesQuery
    \/ NamesReturn

SpecNames == InitNames /\ [][NextNames]_vars

(***************************************************************************)
(* The calendar of the claims: the dates of 2024 by their day of the year, *)
(* written down apart from the Date arithmetic of the handler.             *)
(***************************************************************************)
MonthLen2024 == <<31, 29, 31, 30, 31, 30, 31, 31, 30, 31, 30, 31>>
DaysBefore2024 == <<0, 31, 60, 91, 121, 152, 182, 213, 244, 274, 305, 335>>

\* 1 for 2024-01-01, a Monday
Ordinal(ds) == DaysBefore2024[ds.m] + ds.d

WeekdayOf(ds) == Ordinal(ds) % 7

Dates2024 == {DateStr(2024, m, d) : m \in 1 .. 12, d \in 1 .. 31} 

DateOfOrdinal(o) ==
    CHOOSE ds \in Dates2024 : ds.d <= MonthLen2024[ds.m] /\ Ordinal(ds) = o

\* minutes from 2024-01-01T00:00 to a timestamp of 2024
IsoMinutes(iso) == (DaysBefore2024[iso.mo] + iso.d - 1) * 24 * 60 + iso.hh * 60 + iso.mi

\* the timestamps of the days of [start, until] whose weekday is selected,
\* at the time of day, in ascending order
ExpectedStarts(start, until, selection, time) ==
    LET first == Ordinal(start)
        days == [k \in 1 .. (Ordinal(until) - first + 1) |-> DateOfOrdinal(first + k - 1)]
        kept == SelectSeq(days, LAMBDA ds : WeekdayOf(ds) \in selection)
    IN  [k \in 1 .. Len(kept) |->
           Iso(kept[k].y, kept[k].m, kept[k].d, time.hh, time.mm)]

\* a series spec with two dates, a time of day and a weekday object
WellFormed(body) ==
    /\ body.kind = "object"
    /\ body.obj.series_start_date # Missing
    /\ body.obj.recur_until # Missing
    /\ body.obj.time # Missing
    /\ body.obj.recurring_days # Missing
    /\ body.obj.series_start_date[1].kind = "date"
    /\ body.obj.recur_until[1].kind = "date"
    /\ body.obj.time[1].kind = "time"

Picked(body) == {k \in DayKeys : body.obj.recurring_days[1][k]}

StartOf(body) == body.obj.series_start_date[1]
UntilOf(body) == body.obj.recur_until[1]
TimeOf(body) == body.obj.time[1]

\* the dtstart values of a sequence of rows
Starts(rows) == [k \in 1 .. Len(rows) |-> rows[k].dtstart[1]]

\* the expansion loop of a series replacement has run to its end
Expanded(p) == h[p].pc = "commit" /\ IsSeriesPut(h[p].req)

\* C1: for a well-formed series spec with a non-empty weekday selection, the
\* instances the expansion loop of PUT ?seriesId has emitted when it ends are,
\* in order, one per day of [series_start_date, recur_until] whose weekday is
\* selected, each at the supplied time of day: ascending, none twice, none
\* skipped.
C1_ExpansionExact ==
    \A p \in Procs :
        (Expanded(p) /\ WellFormed(h[p].req.body) /\ Picked(h[p].req.body) # {})
        => Starts(h[p].tx.ins)
             = ExpectedStarts(StartOf(h[p].req.body), UntilOf(h[p].req.body),
                              Picked(h[p].req.body), TimeOf(h[p].req.body))

\* an expansion over several days that emitted at least two instances and
\* skipped at least one day of the range
C1_Witness ==
    \E p \in Procs :
        /\ Expanded(p) /\ WellFormed(h[p].req.body) /\ Picked(h[p].req.body) # {}
        /\ Len(h[p].tx.ins) >= 2
        /\ Len(h[p].tx.ins) < h[p].iters

\* C5: with no weekday selected the expansion is the expansion of all seven
\* weekdays: one instance for every day of [series_start_date, recur_until].
C5_EmptySelectionEveryDay ==
    \A p \in Procs :
        (Expanded(p) /\ WellFormed(h[p].req.body) /\ Picked(h[p].req.body) = {})
        => Starts(h[p].tx.ins)
             = ExpectedStarts(StartOf(h[p].req.body), UntilOf(h[p].req.body),
                              {0, 1, 2, 3, 4, 5, 6}, TimeOf(h[p].req.body))

\* an expansion with no weekday selected that emitted three days or more
C5_Witness ==
    \E p \in Procs :
        /\ Expanded(p) /\ WellFormed(h[p].req.body) /\ Picked(h[p].req.body) = {}
        /\ Len(h[p].tx.ins) >= 3
        /\ Len(h[p].tx.ins) = h[p].iters

\* the weekdays the spec selects, every day when it selects none
Effective(body) == IF Picked(body) = {} THEN DayKeys ELSE Picked(body)

\* C6: the end bound is inclusive: when series_start_date <= recur_until and
\* the weekday of recur_until is selected, an instance dated recur_until is
\* emitted, whatever the time of day.
C6_EndInclusive ==
    \A p \in Procs :
        (/\ Expanded(p) /\ WellFormed(h[p].req.body)
         /\ Ordinal(StartOf(h[p].req.body)) <= Ordinal(UntilOf(h[p].req.body))
         /\ WeekdayOf(UntilOf(h[p].req.body)) \in Effective(h[p].req.body))
        => \E k \in 1 .. Len(h[p].tx.ins) :
              /\ h[p].tx.ins[k].dtstart[1].y = UntilOf(h[p].req.body).y
              /\ h[p].tx.ins[k].dtstart[1].mo = UntilOf(h[p].req.body).m
              /\ h[p].tx.ins[k].dtstart[1].d = UntilOf(h[p].req.body).d

\* an expansion at 23:59 over more than one day whose last instance is on
\* recur_until
C6_Witness ==
    \E p \in Procs :
        /\ Expanded(p) /\ WellFormed(h[p].req.body)
        /\ Ordinal(StartOf(h[p].req.body)) < Ordinal(UntilOf(h[p].req.body))
        /\ WeekdayOf(UntilOf(h[p].req.body)) \in Effective(h[p].req.body)
        /\ TimeOf(h[p].req.body) = TimeStr(23, 59)
        /\ Len(h[p].tx.ins) >= 1
        /\ h[p].tx.ins[Len(h[p].tx.ins)].dtstart[1].d = UntilOf(h[p].req.body).d

\* the minutes between dtstart and dtend of a row
RowMinutes(r) == IsoMinutes(r.dtend[1]) - IsoMinutes(r.dtstart[1])

\* C7: every instance of a "meet-and-greet" series ends 30 minutes after it
\* starts, whatever duration the request gives or omits; an instance of any
\* other type ends duration minutes after it starts.
C7_DurationRule ==
    \A p \in Procs :
        IsSeriesPut(h[p].req) =>
            \A k \in 1 .. Len(h[p].tx.ins) :
                IF h[p].req.body.obj.type = Some("meet-and-greet")
                THEN RowMinutes(h[p].tx.ins[k]) = 30
                ELSE /\ h[p].req.body.obj.duration # Missing
                     /\ RowMinutes(h[p].tx.ins[k]) = h[p].req.body.obj.duration[1]

\* a meet-and-greet expansion, of a request with a duration other than 30 or
\* with none, that emitted an instance running past midnight
C7_Witness ==
    \E p \in Procs :
        /\ Expanded(p)
        /\ h[p].req.body.obj.type = Some("meet-and-greet")
        /\ h[p].req.body.obj.duration \in {Missing, Some(60)}
        /\ Len(h[p].tx.ins) >= 1
        /\ h[p].tx.ins[1].dtend[1].d # h[p].tx.ins[1].dtstart[1].d

\* recur_until is a date before series_start_date
Inverted(body) ==
    WellFormed(body) /\ Ordinal(UntilOf(body)) < Ordinal(StartOf(body))

\* the statement last sent on the client failed
LastFailed(hp) == hp.log # <<>> /\ ~hp.log[Len(hp.log)][2]

\* a request that ended in the catch block got there because pool.connect
\* or the statement sent before the ROLLBACK failed
StoreFailed(hp) ==
    \/ hp.log = <<>>
    \/ /\ Len(hp.log) >= 2
       /\ hp.log[Len(hp.log)][1] = "ROLLBACK"
       /\ ~hp.log[Len(hp.log) - 1][2]

\* C8: when recur_until is before series_start_date the expansion emits no
\* instance and raises no error: the loop body never runs, and the request
\* leaves the transaction's normal path only when the store fails a statement.
C8_InvertedRangeEmpty ==
    \A p \in Procs :
        (IsSeriesPut(h[p].req) /\ Inverted(h[p].req.body))
        => /\ h[p].tx.ins = <<>>
           /\ h[p].iters = 0
           /\ h[p].pc = "rollback" => LastFailed(h[p])
           /\ (h[p].pc = "done" /\ h[p].resp # 200) => StoreFailed(h[p])

\* an inverted range whose request committed and answered 200
C8_Witness ==
    \E p \in Procs :
        /\ IsSeriesPut(h[p].req) /\ Inverted(h[p].req.body)
        /\ h[p].pc = "done" /\ h[p].resp = 200
        /\ h[p].log = <<<<"BEGIN", TRUE>>, <<"DELETE", TRUE>>, <<"COMMIT", TRUE>>>>

\* the most iterations the loop may make over a spec: the days of
\* [series_start_date, recur_until], none when a date is invalid
MaxIterations(body) ==
    IF WellFormed(body) /\ Ordinal(StartOf(body)) <= Ordinal(UntilOf(body))
    THEN Ordinal(UntilOf(body)) - Ordinal(StartOf(body)) + 1
    ELSE 0

\* C9: the expansion loop terminates: it runs at most
\* (recur_until - series_start_date + 1) times, zero times when recur_until is
\* before series_start_date or when either date parses to an invalid date,
\* and every iteration that stays in the loop moves the cursor forward by
\* exactly one calendar day.
C9_LoopBounded ==
    /\ [](\A p \in Procs :
            IsSeriesPut(h[p].req) => h[p].iters <= MaxIterations(h[p].req.body))
    /\ [][\A p \in Procs :
            (h[p].pc = "put_loop" /\ h'[p].pc = "put_loop" /\ h'[p] # h[p])
            => /\ h'[p].iters = h[p].iters + 1
               /\ h'[p].cur.t = h[p].cur.t + 24 * 60
               /\ h'[p].until = h[p].until]_vars

\* a loop that made every iteration its range allows, and a loop over an
\* invalid date that made none, both ended
C9_Witness ==
    \E p \in Procs :
        /\ Expanded(p)
        /\ \/ h[p].iters = MaxIterations(h[p].req.body) /\ h[p].iters >= 4
           \/ /\ h[p].req.body.obj.recur_until = Some(NaNDateStr)
              /\ h[p].req.body.obj.series_start_date # Some(NaNDateStr)
              /\ h[p].iters = 0

\* a request has been answered and its response not yet delivered
Answered(p, status) == h[p].pc = "done" /\ h[p].resp = status

\* the dtstart values of a set of rows of a table, with their numbers
RECURSIVE StartsOfRows(_, _)
StartsOfRows(table, rows) ==
    IF rows = {} THEN EmptyBag
    ELSE LET r == CHOOSE x \in rows : TRUE
         IN  StartsOfRows(table, rows \ {r}) (+) [st \in {r.dtstart[1]} |-> table[r]]

\* the series a request names
SeriesOf(p) == h[p].req.seriesId[1]

\* C2: after PUT ?seriesId=S has answered 200 the rows with series_id = S are
\* the instances expanded from the request's spec: no row that carried S
\* before the request is left, every row the request added carries S, and
\* for a well-formed spec the rows of S are one per expected instance.
C2_SeriesReplaced ==
    \A p \in Procs :
        (IsSeriesPut(h[p].req) /\ Answered(p, 200))
        => /\ SeriesRows(h[p].pre, SeriesOf(p)) \cap DOMAIN events = {}
           /\ \A r \in (DOMAIN events) \ (DOMAIN h[p].pre) : r.series_id = Some(SeriesOf(p))
           /\ \A r \in DOMAIN h[p].pre :
                 r.series_id # Some(SeriesOf(p)) => CopiesIn(r, events) = h[p].pre[r]
           /\ WellFormed(h[p].req.body)
              => StartsOfRows(events, SeriesRows(events, SeriesOf(p)))
                   = BagOfSeq(ExpectedStarts(StartOf(h[p].req.body), UntilOf(h[p].req.body),
                                             Effective(h[p].req.body), TimeOf(h[p].req.body)))

\* a replacement answered 200 of a series that had rows, by three instances
C2_Witness ==
    \E p \in Procs :
        /\ IsSeriesPut(h[p].req) /\ Answered(p, 200)
        /\ SeriesRows(h[p].pre, SeriesOf(p)) # {}
        /\ Cardinality(SeriesRows(events, SeriesOf(p))) = 3

\* the DELETE of the request was sent
DeleteIssued(hp) == \E k \in 1 .. Len(hp.log) : hp.log[k][1] = "DELETE"

\* C3: when a step of PUT ?seriesId=S fails after the DELETE was sent (the
\* store rejects a statement, or the expansion throws), the request answers
\* 500 and the table holds exactly the rows it held before the request.
C3_FailedReplaceRestores ==
    \A p \in Procs :
        (/\ IsSeriesPut(h[p].req) /\ h[p].pc = "done"
         /\ DeleteIssued(h[p]) /\ h[p].resp # 200)
        => /\ h[p].resp = 500
           /\ events = h[p].pre
           /\ h[p].log[Len(h[p].log)][1] = "ROLLBACK"

\* a replacement of a series that had rows, failed at an INSERT that followed
\* a successful one
C3_Witness ==
    \E p \in Procs :
        /\ IsSeriesPut(h[p].req) /\ Answered(p, 500)
        /\ SeriesRows(h[p].pre, SeriesOf(p)) # {}
        /\ \E k \in 2 .. Len(h[p].log) :
              /\ h[p].log[k - 1] = <<"INSERT", TRUE>>
              /\ h[p].log[k] = <<"INSERT", FALSE>>

\* the rows a POST body asks for
RECURSIVE PostRows(_)
PostRows(list) ==
    IF list = <<>> THEN <<>> ELSE <<PostValues(Head(list))>> \o PostRows(Tail(list))

\* C4: POST of a batch is atomic: once the request is answered either it
\* answered 201 and every event of the batch is stored, or it did not and
\* the table equals its state before the request.
C4_PostAtomic ==
    \A p \in Procs :
        (h[p].req.method = "POST" /\ h[p].pc = "done")
        => IF h[p].resp = 201
           THEN events = h[p].pre (+) BagOfSeq(PostRows(h[p].req.body.list))
           ELSE events = h[p].pre

\* a batch of two whose second INSERT failed after the first succeeded
C4_Witness ==
    \E p \in Procs :
        /\ h[p].req.method = "POST" /\ Answered(p, 500)
        /\ Len(h[p].req.body.list) = 2
        /\ h[p].log = <<<<"BEGIN", TRUE>>, <<"INSERT", TRUE>>, <<"INSERT", FALSE>>,
                        <<"ROLLBACK", TRUE>>>>

\* C10: replacing a series is idempotent in content: when PUT ?seriesId=S
\* answers 200 right after a PUT ?seriesId=S with the same spec answered 200,
\* the (dtstart, dtend) pairs of the rows of S, with their numbers, are those
\* the first request left.
C10_ReplaceIdempotent ==
    \A p \in Procs :
        (/\ IsSeriesPut(h[p].req) /\ Answered(p, 200)
         /\ prev.put /\ prev.seriesId = SeriesOf(p) /\ prev.body = h[p].req.body)
        => SeriesPairs(events, SeriesOf(p)) = prev.pairs

\* the second of two such requests, over a series of three instances
C10_Witness ==
    \E p \in Procs :
        /\ IsSeriesPut(h[p].req) /\ Answered(p, 200)
        /\ prev.put /\ prev.seriesId = SeriesOf(p) /\ prev.body = h[p].req.body
        /\ BagCardinality(prev.pairs) = 3
        /\ \A r \in SeriesRows(events, SeriesOf(p)) : r \notin DOMAIN h[p].pre

(***************************************************************************)
(* Validation and the invariants of the table.                             *)
(***************************************************************************)
\* a field that is present and is not a date (or not a time)
NotParsable(field) == field # Missing /\ field[1].kind = "nan"

\* a series spec whose start date, end date or time cannot be parsed
Unparsable(body) ==
    \/ NotParsable(body.obj.series_start_date)
    \/ NotParsable(body.obj.recur_until)
    \/ NotParsable(body.obj.time)

\* the store accepted every statement the request sent, and the connection
StoreOk(hp) == hp.err # "connect" /\ \A k \in 1 .. Len(hp.log) : hp.log[k][2]

\* C11: a PUT ?seriesId=S request whose series_start_date, recur_until or
\* time cannot be parsed is answered with a client error (status 4xx) and
\* leaves the table, the rows of S included, as it was before the request.
C11_UnparsableRejected ==
    \A p \in Procs :
        (/\ IsSeriesPut(h[p].req) /\ h[p].pc = "done"
         /\ Unparsable(h[p].req.body) /\ StoreOk(h[p]))
        => /\ h[p].resp \in 400 .. 499
           /\ events = h[p].pre

\* the columns every instance of one series is expected to share
SeriesFields(r) ==
    <<r.summary, r.type, r.recurring_days, r.recur_until, r.series_start_date>>

\* C12: in every reachable state the rows that share one non-null series_id
\* have the same summary, type, recurring_days, recur_until and
\* series_start_date.
C12_SeriesUniform ==
    \A r1, r2 \in DOMAIN events :
        (r1.series_id # NULL /\ r1.series_id = r2.series_id)
        => SeriesFields(r1) = SeriesFields(r2)

\* C13: every stored event ends no earlier than it starts.
C13_EndNotBeforeStart ==
    \A r \in DOMAIN events :
        (r.dtstart # NULL /\ r.dtend # NULL)
        => IsoMinutes(r.dtend[1]) >= IsoMinutes(r.dtstart[1])

\* C14: no two rows of the table have the same uid.  The handler sends each
\* INSERT of POST with the caller's uid as it is; whether a second row with
\* a stored uid is accepted is the store's decision, and the model's store
\* accepts or rejects any statement.
C14_UidUnique ==
    \A r1 \in DOMAIN events :
        /\ events[r1] = 1
        /\ \A r2 \in DOMAIN events : r1.uid = r2.uid => r1 = r2

\* a PUT ?uid=U request without seriesId whose body parsed
IsUidPut(r) ==
    r.method = "PUT" /\ r.body.kind # "bad" /\ r.seriesId = Missing /\ r.uid # Missing

\* the number of rows of a set of rows of a table
CountRows(table, rows) == BagCardinality([r \in rows |-> table[r]])

\* the number of rows of table `before` that table `after` no longer holds
RowsChanged(before, after) == BagCardinality(before (-) after)

\* C15: PUT ?uid=U changes only rows whose uid is U, and leaves them their
\* uid: once the request is answered every row with another uid, the rows of
\* the same series included, is in the table as often as before, the number
\* of rows with uid U is as before, and when at most one row had uid U at
\* most one row has changed.
C15_UpdateTouchesOneRow ==
    \A p \in Procs :
        (IsUidPut(h[p].req) /\ h[p].pc = "done")
        => LET U == h[p].req.uid[1]
               pre == h[p].pre
           IN  /\ \A r \in DOMAIN pre \cup DOMAIN events :
                     r.uid # Some(U) => CopiesIn(r, events) = CopiesIn(r, pre)
               /\ CountRows(events, UidRows(events, U)) = CountRows(pre, UidRows(pre, U))
               /\ CountRows(pre, UidRows(pre, U)) <= 1 => RowsChanged(pre, events) <= 1

\* a PUT ?uid=U has rewritten the one row with uid U of a series that has
\* another row
C15_Witness ==
    \E p \in Procs :
        /\ IsUidPut(h[p].req) /\ Answered(p, 200)
        /\ RowsChanged(h[p].pre, events) = 1
        /\ \E r1, r2 \in DOMAIN h[p].pre :
              /\ r1.uid = h[p].req.uid /\ r2.uid # r1.uid
              /\ r1.series_id # NULL /\ r2.series_id = r1.series_id
              /\ r2 \in DOMAIN events

(***************************************************************************)
(* Deletions, requests that match nothing, and the ways out of the handler.*)
(***************************************************************************)
\* a DELETE request that selects by uid, and one that selects by seriesId
\* (uid is looked at first)
IsUidDelete(r) == r.method = "DELETE" /\ r.uid # Missing

IsSeriesDelete(r) == r.method = "DELETE" /\ r.uid = Missing /\ r.seriesId # Missing

\* the request selects rows by uid or by series and no row of the table
\* is selected
MatchesNothing(r, table) ==
    \/ (IsUidDelete(r) \/ IsUidPut(r))
         /\ \A row \in DOMAIN table : row.uid # r.uid
    \/ IsSeriesDelete(r)
         /\ \A row \in DOMAIN table : row.series_id # r.seriesId

\* C16: DELETE ?seriesId=S answered 200 has removed every row whose
\* series_id is S and no other row; a DELETE ?seriesId, DELETE ?uid or
\* PUT ?uid that matches no row, the store having run its statement, leaves
\* the table as it was and is answered 200 like one that matched.
C16_DeleteSeriesAndNoMatch ==
    \A p \in Procs :
        h[p].pc = "done"
        => /\ (IsSeriesDelete(h[p].req) /\ h[p].resp = 200)
                => /\ \A row \in DOMAIN events : row.series_id # h[p].req.seriesId
                   /\ \A row \in DOMAIN h[p].pre :
                         row.series_id # h[p].req.seriesId
                         => CopiesIn(row, events) = CopiesIn(row, h[p].pre)
                   /\ DOMAIN events \subseteq DOMAIN h[p].pre
           /\ (MatchesNothing(h[p].req, h[p].pre) /\ StoreOk(h[p]))
                => h[p].resp = 200 /\ events = h[p].pre

\* a DELETE ?seriesId that matched no row of a table that holds rows has
\* been answered
C16_Witness ==
    \E p \in Procs :
        /\ IsSeriesDelete(h[p].req) /\ h[p].pc = "done"
        /\ MatchesNothing(h[p].req, h[p].pre) /\ StoreOk(h[p])
        /\ h[p].pre # EmptyBag

\* a request that matches no row of the interface table
Unrouted(r) ==
    \/ r.method \notin {"GET", "POST", "PUT", "DELETE"}
    \/ r.method \in {"PUT", "DELETE"} /\ r.uid = Missing /\ r.seriesId = Missing

\* C17: a request that matches no row of the interface table (another
\* method, or PUT or DELETE with neither uid nor seriesId) is answered 405
\* and changes no row, whatever its body.
C17_UnroutedIs405 ==
    \A p \in Procs :
        (h[p].pc = "done" /\ Unrouted(h[p].req))
        => h[p].resp = 405 /\ events = h[p].pre

\* the invocation got a client from the pool: BEGIN is the first statement
\* sent on it
Acquired(hp) == \E k \in 1 .. Len(hp.log) : hp.log[k][1] = "BEGIN"

\* C18: a client acquired by POST or PUT ?seriesId is released exactly once
\* before the handler returns, on every way out (COMMIT succeeded; a
\* statement failed and ROLLBACK succeeded; a statement failed and ROLLBACK
\* failed too); a request that acquired none releases none, and no request
\* ends holding a client.
C18_ClientReleasedOnce ==
    \A p \in Procs :
        /\ h[p].releases <= 1
        /\ h[p].held => h[p].releases = 0 /\ h[p].pc \notin {"idle", "done"}
        /\ h[p].pc = "done"
             => h[p].releases = IF Acquired(h[p]) THEN 1 ELSE 0

\* a request whose statement failed and whose ROLLBACK failed too has
\* returned
C18_Witness ==
    \E p \in Procs :
        /\ h[p].pc = "done" /\ Len(h[p].log) >= 2
        /\ h[p].log[Len(h[p].log)] = <<"ROLLBACK", FALSE>>
        /\ ~h[p].log[Len(h[p].log) - 1][2]
        /\ h[p].releases = 1 /\ ~h[p].held

\* something failed while the request was handled: the handler's code threw
\* or the store rejected the connection or a statement
Failed(hp) == hp.err # "none" \/ \E k \in 1 .. Len(hp.log) : ~hp.log[k][2]

\* C19: no exception leaves the events handler: a request that met a failure
\* (a body that does not parse, pool.connect, a statement, ROLLBACK) is
\* answered 500 with the fixed body {"error":"Internal Server Error"}, a
\* request that met none is answered 200, 201 or 405, and after a statement
\* has failed nothing is sent again but the one ROLLBACK of the catch block.
C19_FailureIs500 ==
    \A p \in Procs :
        /\ h[p].pc = "done"
             => /\ h[p].resp \in {200, 201, 405, 500}
                /\ Failed(h[p]) <=> h[p].resp = 500
                /\ h[p].resp = 500 => h[p].errorBody = "Internal Server Error"
        /\ \A k \in 1 .. Len(h[p].log) :
              ~h[p].log[k][2]
              => \/ k = Len(h[p].log)
                 \/ /\ k = Len(h[p].log) - 1
                    /\ h[p].log[k][1] # "ROLLBACK"
                    /\ h[p].log[k + 1][1] = "ROLLBACK"

\* a request whose INSERT failed and whose ROLLBACK failed too has been
\* answered 500
C19_Witness ==
    \E p \in Procs :
        /\ Answered(p, 500) /\ Len(h[p].log) >= 2
        /\ h[p].log[Len(h[p].log) - 1] = <<"INSERT", FALSE>>
        /\ h[p].log[Len(h[p].log)] = <<"ROLLBACK", FALSE>>
        /\ h[p].err = "ROLLBACK"

(***************************************************************************)
(* The autocomplete endpoint.                                              *)
(***************************************************************************)
\* q occurs in text, letters compared without regard to case
Contains(text, q) ==
    \E i \in 0 .. Len(text) - Len(q) :
        \A j \in 1 .. Len(q) : Lower(text[i + j]) = Lower(q[j])

\* the summaries a table stores
Summaries(table) == {r.summary[1] : r \in {x \in DOMAIN table : x.summary # NULL}}

\* C20: a GET with q of at least 2 characters that is answered 200 returns
\* at most 10 summaries, each distinct, each a stored summary that contains
\* q as a substring without regard to case, in ascending order; a GET with q
\* missing or shorter than 2 characters is answered 200 with an empty array
\* and sends no query; the handler never changes the table.
C20_Autocomplete ==
    /\ names.pc # "idle" => events = names.pre
    /\ (names.pc = "done" /\ names.method = "GET")
         => IF names.q = Missing \/ Len(names.q[1]) < 2
            THEN names.resp = 200 /\ names.body = <<>> /\ names.queries = 0
            ELSE names.resp = 200
                 => /\ Len(names.body) <= 10
                    /\ \A j, k \in 1 .. Len(names.body) :
                          j < k => /\ names.body[j] # names.body[k]
                                   /\ Before(names.body[j], names.body[k])
                    /\ \A k \in 1 .. Len(names.body) :
                          /\ names.body[k] \in Summaries(events)
                          /\ Contains(names.body[k], names.q[1])

(***************************************************************************)
(* Two requests on one series at once.                                     *)
(***************************************************************************)
\* the dtstart values the rows of the series have once the request has run
\* alone: none after a DELETE, one per expected instance after a PUT
SerialOutcome(r) ==
    IF r.method = "DELETE" THEN EmptyBag
    ELSE BagOfSeq(ExpectedStarts(StartOf(r.body), UntilOf(r.body),
                                 Effective(r.body), TimeOf(r.body)))

\* C21: when two different requests on series S, two PUT ?seriesId=S or a
\* PUT ?seriesId=S and a DELETE ?seriesId=S, have both been answered 200,
\* the rows of S are the outcome of one of the two: the expansion of one
\* spec, or none for the delete, never both expansions together.
C21_RacingSerial ==
    \A p, q \in Procs :
        (/\ p # q /\ h[p].req # h[q].req
         /\ Answered(p, 200) /\ Answered(q, 200)
         /\ IsSeriesPut(h[p].req)
         /\ h[p].req.seriesId = h[q].req.seriesId)
        => StartsOfRows(events, SeriesRows(events, SeriesOf(p)))
             \in {SerialOutcome(h[p].req), SerialOutcome(h[q].req)}

(***************************************************************************)
(* The order of the statements of a transaction.                           *)
(***************************************************************************)
\* a request served inside a transaction: POST, PUT ?seriesId
IsTxRequest(r) == (r.method = "POST" /\ r.body.kind # "bad") \/ IsSeriesPut(r)

\* the places of the log where COMMIT or ROLLBACK was sent
Enders(log) == {k \in 1 .. Len(log) : log[k][1] \in {"COMMIT", "ROLLBACK"}}

\* BEGIN is the first statement and is sent once; a DELETE or INSERT comes
\* after a BEGIN that succeeded and before any COMMIT or ROLLBACK; every
\* statement before a COMMIT succeeded; a success response has a COMMIT that
\* succeeded as its last statement
OrderedLog(hp) ==
    /\ \A k \in 1 .. Len(hp.log) :
          /\ (hp.log[k][1] = "BEGIN") <=> (k = 1)
          /\ hp.log[k][1] \in {"DELETE", "INSERT"}
               => /\ hp.log[1] = <<"BEGIN", TRUE>>
                  /\ \A j \in Enders(hp.log) : k < j
          /\ hp.log[k][1] = "COMMIT" => \A j \in 1 .. k - 1 : hp.log[j][2]
    /\ (hp.pc = "done" /\ hp.resp \in {200, 201})
         => hp.log # <<>> /\ hp.log[Len(hp.log)] = <<"COMMIT", TRUE>>

\* C22 as stated: the statements of POST and PUT ?seriesId are in order, and
\* a request that got a client and has returned sent exactly one of COMMIT
\* and ROLLBACK, ROLLBACK when a statement failed.
C22_ExactlyOneEnder ==
    \A p \in Procs :
        IsTxRequest(h[p].req)
        => /\ OrderedLog(h[p])
           /\ (h[p].pc = "done" /\ Acquired(h[p]))
                => /\ Cardinality(Enders(h[p].log)) = 1
                   /\ (\E k \in 1 .. Len(h[p].log) : ~h[p].log[k][2])
                        => \E k \in Enders(h[p].log) : h[p].log[k][1] = "ROLLBACK"

\* C22, amended: the statements of POST and PUT ?seriesId are in order, and
\* a request that got a client and has returned ended its transaction with
\* a COMMIT that succeeded or with one ROLLBACK, the last statement it
\* sent; the ROLLBACK is sent when a statement failed, a COMMIT included (so
\* a failed COMMIT is followed by the ROLLBACK), or the handler's code threw.
C22_OrderedTransaction ==
    \A p \in Procs :
        IsTxRequest(h[p].req)
        => /\ OrderedLog(h[p])
           /\ Cardinality({k \in Enders(h[p].log) : h[p].log[k][1] = "ROLLBACK"}) <= 1
           /\ Cardinality({k \in Enders(h[p].log) : h[p].log[k][1] = "COMMIT"}) <= 1
           /\ (h[p].pc = "done" /\ Acquired(h[p]))
                => LET last == h[p].log[Len(h[p].log)]
                   IN  /\ last = <<"COMMIT", TRUE>> \/ last[1] = "ROLLBACK"
                       /\ Failed(h[p]) <=> last[1] = "ROLLBACK"
                       /\ \A k \in 1 .. Len(h[p].log) - 1 : h[p].log[k][1] # "ROLLBACK"

\* a replacement whose DELETE and INSERT succeeded and whose COMMIT failed
\* has sent the ROLLBACK and returned
C22_Witness ==
    \E p \in Procs :
        /\ IsSeriesPut(h[p].req) /\ h[p].pc = "done" /\ Len(h[p].log) >= 5
        /\ h[p].log[2] = <<"DELETE", TRUE>>
        /\ h[p].log[3] = <<"INSERT", TRUE>>
        /\ h[p].log[Len(h[p].log) - 1] = <<"COMMIT", FALSE>>
        /\ h[p].log[Len(h[p].log)][1] = "ROLLBACK"

(***************************************************************************)
(* What a request leaves alone, and requests with both parameters.         *)
(***************************************************************************)
\* every row of another series, or of none, is in table `after` as often as
\* in `before`
OtherSeriesKept(before, after, seriesId) ==
    \A r \in DOMAIN before \cup DOMAIN after :
        r.series_id # seriesId => CopiesIn(r, after) = CopiesIn(r, before)

\* every row with another uid is in table `after` as often as in `before`
OtherUidsKept(before, after, uid) ==
    \A r \in DOMAIN before \cup DOMAIN after :
        r.uid # uid => CopiesIn(r, after) = CopiesIn(r, before)

\* C23: PUT ?seriesId=S and DELETE ?seriesId=S leave every row whose
\* series_id is not S as it was, the rows with null series_id included;
\* DELETE ?uid=U leaves every row whose uid is not U as it was.
C23_OtherRowsKept ==
    \A p \in Procs :
        h[p].pc = "done"
        => /\ (IsSeriesPut(h[p].req) \/ IsSeriesDelete(h[p].req))
                => OtherSeriesKept(h[p].pre, events, h[p].req.seriesId)
           /\ IsUidDelete(h[p].req)
                => OtherUidsKept(h[p].pre, events, h[p].req.uid)

\* a replacement of series S answered 200 over a table that held a row of S
\* and a row of no series
C23_Witness ==
    \E p \in Procs :
        /\ IsSeriesPut(h[p].req) /\ Answered(p, 200)
        /\ SeriesRows(h[p].pre, SeriesOf(p)) # {}
        /\ SeriesRows(events, SeriesOf(p)) # {}
        /\ \E r \in DOMAIN h[p].pre : r.series_id = NULL /\ r \in DOMAIN events

\* C24: a PUT ?seriesId=S whose recur_until is before its series_start_date
\* is not turned away: unless the store fails a statement it is answered
\* 200, and after the 200 the table holds no row with series_id = S, the
\* DELETE having been committed with no INSERT.
C24_InvertedRangeErases ==
    \A p \in Procs :
        (IsSeriesPut(h[p].req) /\ Inverted(h[p].req.body) /\ h[p].pc = "done")
        => /\ StoreOk(h[p]) => h[p].resp = 200
           /\ h[p].resp = 200
                => /\ \A r \in DOMAIN events : r.series_id # h[p].req.seriesId
                   /\ h[p].log = <<<<"BEGIN", TRUE>>, <<"DELETE", TRUE>>, <<"COMMIT", TRUE>>>>

\* an inverted range has erased a series that had rows, other rows staying
C24_Witness ==
    \E p \in Procs :
        /\ IsSeriesPut(h[p].req) /\ Inverted(h[p].req.body) /\ Answered(p, 200)
        /\ SeriesRows(h[p].pre, SeriesOf(p)) # {}
        /\ SeriesRows(events, SeriesOf(p)) = {}
        /\ events # EmptyBag

\* the statements of the log, without their outcomes
Statements(log) == [k \in 1 .. Len(log) |-> log[k][1]]

\* C25: a request that carries both seriesId and uid performs one operation.
\* PUT performs the series replacement only: no UPDATE is sent, the rows of
\* other series and of none, the row with the uid included, are as before,
\* and after 200 the rows of the series are the expansion of the spec.
\* DELETE performs the delete by uid only: one DELETE is sent, every row with
\* another uid, the other rows of the series included, is as before, and
\* after 200 no row with the uid is left.
C25_BothParameters ==
    \A p \in Procs :
        (h[p].pc = "done" /\ h[p].req.uid # Missing /\ h[p].req.seriesId # Missing)
        => /\ IsSeriesPut(h[p].req)
                => /\ \A k \in 1 .. Len(h[p].log) : h[p].log[k][1] # "UPDATE"
                   /\ OtherSeriesKept(h[p].pre, events, h[p].req.seriesId)
                   /\ (h[p].resp = 200 /\ WellFormed(h[p].req.body))
                        => StartsOfRows(events, SeriesRows(events, SeriesOf(p)))
                             = SerialOutcome(h[p].req)
           /\ h[p].req.method = "DELETE"
                => /\ Statements(h[p].log) = <<"DELETE">>
                   /\ OtherUidsKept(h[p].pre, events, h[p].req.uid)
                   /\ h[p].resp = 200 => \A r \in DOMAIN events : r.uid # h[p].req.uid

\* a DELETE with both parameters has removed the row with the uid and left
\* another row of the series
C25_Witness ==
    \E p \in Procs :
        /\ h[p].req.method = "DELETE" /\ Answered(p, 200)
        /\ h[p].req.uid # Missing /\ h[p].req.seriesId # Missing
        /\ \E r1, r2 \in DOMAIN h[p].pre :
              /\ r1.uid = h[p].req.uid /\ r1.series_id = h[p].req.seriesId
              /\ r2.uid # h[p].req.uid /\ r2.series_id = h[p].req.seriesId
              /\ r1 \notin DOMAIN events /\ r2 \in DOMAIN events

==============================================================================
